---- MODULE Spec2Model ----
(***************************************************************************)
(* Model of the incremental leaderboard-spot tracker of                    *)
(* src/public/electron/api.js (trackLeaderboardSpots) together with the    *)
(* electron-store keys it reads and writes.  One invocation is a process   *)
(* that is suspended at each `await`; the store is shared.                 *)
(***************************************************************************)
EXTENDS Integers, Sequences, FiniteSets, TLC

\* ------------------------------------------------------------------ bounds
MaxLen == 2          \* longest activity batch the Activity Source returns
MaxTicks == 3        \* how often the clock advances

\* ------------------------------------------------------- program constants
\* slip: the top-50 insertion tests `rank < 50`
Top50MaxSlip == 50 - 1

Top50Max == 50       \* api.js:204  rank <= 50
\* slip: the top-8 insertion tests the top-50 threshold
Top8MaxSlip == Top50Max

Top8Max == 8         \* api.js:208, 217  rank <= 8

Procs == {"inv1", "inv2"}              \* invocations of trackLeaderboardSpots
Titles == {"Song A", "Song B"}         \* activity.beatmap.title
Ranks == {5, 8, 9, 50, 51}             \* activity.rank (around both thresholds)
BaselineAnswers == {0, 2}              \* what getTotalLBCount may answer

\* --------------------------------------------------------------- the store
\* electron-store: a key that was never set reads as undefined.
\* A key is modelled as <<>> (undefined) or <<v>> (set to v).
Undef == <<>>

Some(v) == <<v>>

\* `store.get(key) || dflt`
GetOr(x, dflt) == IF x = Undef THEN dflt ELSE x[1]

EmptyMap == [t \in {} |-> 0]

EmptyStore ==
  [top50s_spots |-> Undef, top50s_count |-> Undef,
   top8s_spots |-> Undef, top8s_count |-> Undef,
   runCount |-> Undef,
   Total_top50s_count |-> Undef, Total_top8s_count |-> Undef]

\* -------------------------------------------------------- activity records
RankRecord(t, r) == [type |-> "rank", beatmap |-> TRUE, title |-> t, rank |-> r]

\* a record of another type (achievement, userSupportAgain, ...)
OtherRecord == [type |-> "achievement", beatmap |-> FALSE, title |-> "", rank |-> 0]

\* a rank record without a beatmap object: activity.beatmap.title throws
MalformedRecord == [type |-> "rank", beatmap |-> FALSE, title |-> "", rank |-> 0]

Records == {RankRecord("Song A", r) : r \in Ranks}
             \cup {RankRecord("Song B", r) : r \in {8, 50}}
             \cup {OtherRecord, MalformedRecord}

SeqsUpTo(S, n) == UNION {[1..k -> S] : k \in 0..n}

Batches == SeqsUpTo(Records, MaxLen)

\* the batches fed to overlapping invocations: one record each
ShortBatches ==
  {<< a >> : a \in {RankRecord("Song A", 50), RankRecord("Song A", 8),
                    RankRecord("Song B", 8), MalformedRecord}}

\* result of getOsuUserActivity(): null, or the list response.data
NullActivities == [isNull |-> TRUE, list |-> <<>>]

Activities(b) == [isNull |-> FALSE, list |-> b]

\* return value of trackLeaderboardSpots: null is <<>>, else a pair
NullResult == <<>>

VARIABLES
  store,                 \* the electron-store file
  pc,                    \* where each invocation is suspended
  sessionTop50sScores, sessionTop50sCount,
  sessionTop8sScores, sessionTop8sCount,
  runCount,              \* locals of each invocation
  activities,            \* what getOsuUserActivity resolved to
  result,                \* what the invocation returns
  store0,                \* history: the store when the invocation started
  fetched,               \* history: what getTotalLBCount(50), (8) answered
  firstRuns,             \* history: how often the first-run branch was taken
  replay,                \* history: the previous invocation, when it is replayed
  processedMin,          \* history: per title, the lowest rank of the persisted folds
  overlapped,            \* history: an invocation started while another was in flight
  caller,                \* whether the caller waits for an invocation before the next
  settings,              \* store key "settings" is set
  accessToken,           \* store key "access_token"
  now,                   \* Date.now(), in ms
  apc,                   \* where the call of getOsuUserActivity is suspended
  aresult,               \* what getOsuUserActivity resolved to
  lastToken              \* history: how getAccessToken last answered, and when

vars == <<store, pc, sessionTop50sScores, sessionTop50sCount,
          sessionTop8sScores, sessionTop8sCount, runCount, activities,
          result, store0, fetched, firstRuns, replay, processedMin,
          overlapped, caller, settings, accessToken, now, apc,
          aresult, lastToken>>

sourceVars == <<settings, accessToken, now, apc, aresult, lastToken>>

trackerVars == <<store, pc, sessionTop50sScores, sessionTop50sCount,
                 sessionTop8sScores, sessionTop8sCount, runCount, activities,
                 result, store0, fetched, firstRuns, replay, processedMin,
                 overlapped, caller>>

locals == <<sessionTop50sScores, sessionTop50sCount,
            sessionTop8sScores, sessionTop8sCount, runCount>>

NoReplay == [armed |-> FALSE, batch |-> <<>>, result |-> NullResult]

NoFetch == <<>>

InitTracker ==
  /\ store = EmptyStore
  /\ pc = [p \in Procs |-> "idle"]
  /\ sessionTop50sScores = [p \in Procs |-> EmptyMap]
  /\ sessionTop50sCount = [p \in Procs |-> 0]
  /\ sessionTop8sScores = [p \in Procs |-> EmptyMap]
  /\ sessionTop8sCount = [p \in Procs |-> 0]
  /\ runCount = [p \in Procs |-> 0]
  /\ activities = [p \in Procs |-> NullActivities]
  /\ result = [p \in Procs |-> NullResult]
  /\ store0 = [p \in Procs |-> EmptyStore]
  /\ fetched = [p \in Procs |-> NoFetch]
  /\ firstRuns = 0
  /\ replay = NoReplay
  /\ processedMin = EmptyMap
  /\ overlapped = FALSE

\* store key "access_token" undefined, or null after a 401: both are falsy
NoToken == <<>>

NoTokenUse == [how |-> "none", at |-> 0, expires_on |-> 0]

\* no call of getOsuUserActivity yet, no token stored
InitSourceVars ==
  /\ accessToken = NoToken
  /\ now = 0
  /\ apc = "idle"
  /\ aresult = "none"
  /\ lastToken = NoTokenUse

\* the caller awaits each invocation before it polls again
Init == InitTracker /\ caller = "sequential" /\ settings = TRUE /\ InitSourceVars

\* the caller polls on a timer, whether or not the last invocation returned
InitOverlap == InitTracker /\ caller = "overlapping" /\ settings = TRUE /\ InitSourceVars

\* ----------------------------------------------------------------- the fold
MapSet(m, t, r) == [x \in DOMAIN m \cup {t} |-> IF x = t THEN r ELSE m[x]]

\* slip: a tie counts as an improvement
ImprovesOrTies(m, t, r) == t \in DOMAIN m /\ r <= m[t]

\* slip: the comparison is inverted
ImprovesInverted(m, t, r) == t \in DOMAIN m /\ r > m[t]

\* `rank < sessionTop50sScores[beatmapTitle]`; a missing title reads as
\* undefined, and a comparison with undefined is false
Improves(m, t, r) == t \in DOMAIN m /\ r < m[t]

\* body of the forEach callback; acc.threw once a record made it throw
FoldRecord(acc, a) ==
  IF acc.threw THEN acc
  ELSE IF a.type # "rank" THEN acc
  ELSE IF ~a.beatmap THEN [acc EXCEPT !.threw = TRUE]
  ELSE LET t == a.title
           r == a.rank
       IN  IF t \notin DOMAIN acc.s50 /\ r <= Top50Max
           THEN LET a1 == [acc EXCEPT !.s50 = MapSet(acc.s50, t, r),
                                      !.c50 = @ + 1]
                IN  IF r <= Top8Max
                    THEN [a1 EXCEPT !.s8 = MapSet(a1.s8, t, r), !.c8 = @ + 1]
                    ELSE a1
           ELSE IF Improves(acc.s50, t, r)
           THEN LET a1 == [acc EXCEPT !.s50 = MapSet(acc.s50, t, r)]
                IN  IF t \notin DOMAIN a1.s8 /\ r <= Top8Max
                    THEN [a1 EXCEPT !.s50 = MapSet(a1.s50, t, r), !.c8 = @ + 1]
                    ELSE a1
           ELSE acc

RECURSIVE FoldFrom(_, _, _)
FoldFrom(acc, list, i) ==
  IF i > Len(list) THEN acc
  ELSE FoldFrom(FoldRecord(acc, list[i]), list, i + 1)

\* activities.forEach(...) on the locals of invocation p
Fold(p, list) ==
  FoldFrom([threw |-> FALSE,
            s50 |-> sessionTop50sScores[p], c50 |-> sessionTop50sCount[p],
            s8 |-> sessionTop8sScores[p], c8 |-> sessionTop8sCount[p]],
           list, 1)

\* slip: the first-run branch is taken while runCount <= 1
IsSubsequentRunLate(rc) == rc > 1

\* `if (runCount > 0)`
IsSubsequentRun(rc) == rc > 0

\* slip: the increment is applied before the reset of the runCount > 0 branch
NextRunCountResetLast(rc) == IF IsSubsequentRun(rc) THEN 0 ELSE rc + 1

\* `runCount = 0` in the runCount > 0 branch, then `runCount++`
NextRunCount(rc) == IF IsSubsequentRun(rc) THEN 0 + 1 ELSE rc + 1

\* slip: the first run keeps the counter it just computed
FirstRunCountKept(c) == c

\* first-run branch: `sessionTop50sCount = 0`, `store.set("top50s_count", 0)`
FirstRunCount(c) == 0

\* slip: the baseline totals are left out of the return value
ReturnPairNoBaseline(c50, c8, s) == << c50, c8 >>

\* the return expression, read back from the store after all writes
ReturnPair(c50, c8, s) ==
  << c50 + GetOr(s.Total_top50s_count, 0), c8 + GetOr(s.Total_top8s_count, 0) >>

\* the batch the Activity Source may answer with
Feed ==
  IF replay.armed THEN {replay.batch}
  ELSE IF caller = "overlapping" THEN ShortBatches
  ELSE Batches

\* the ranks of the well-formed rank records of list for title t
RanksIn(list, t) ==
  {list[i].rank : i \in {j \in 1..Len(list) :
       list[j].type = "rank" /\ list[j].beatmap /\ list[j].title = t}}

SetMin(S) == CHOOSE x \in S : \A y \in S : x <= y

\* the lowest rank per title once the rank records of list are processed too
Processed(m, list) ==
  [t \in DOMAIN m \cup {u \in Titles : RanksIn(list, u) # {}} |->
     SetMin(RanksIn(list, t) \cup (IF t \in DOMAIN m THEN {m[t]} ELSE {}))]

\* ----------------------------------------------------------------- actions
\* lines 188-196: load the locals, call getOsuUserActivity and suspend
Start(p) ==
  /\ pc[p] = "idle"
  /\ sessionTop50sScores' = [sessionTop50sScores EXCEPT ![p] = GetOr(store.top50s_spots, EmptyMap)]
  /\ sessionTop50sCount' = [sessionTop50sCount EXCEPT ![p] = GetOr(store.top50s_count, 0)]
  /\ sessionTop8sScores' = [sessionTop8sScores EXCEPT ![p] = GetOr(store.top8s_spots, EmptyMap)]
  /\ sessionTop8sCount' = [sessionTop8sCount EXCEPT ![p] = GetOr(store.top8s_count, 0)]
  /\ runCount' = [runCount EXCEPT ![p] = GetOr(store.runCount, 0)]
  /\ store0' = [store0 EXCEPT ![p] = store]
  /\ pc' = [pc EXCEPT ![p] = "activity"]
  /\ overlapped' = (overlapped \/ \E q \in Procs : pc[q] # "idle")
  /\ UNCHANGED <<store, activities, result, fetched, firstRuns, replay,
                 processedMin, caller, sourceVars>>

\* line 197: getOsuUserActivity resolved to null
ActivityNull(p) ==
  /\ pc[p] = "activity"
  /\ ~replay.armed
  /\ activities' = [activities EXCEPT ![p] = NullActivities]
  /\ result' = [result EXCEPT ![p] = NullResult]
  /\ pc' = [pc EXCEPT ![p] = "done"]
  /\ UNCHANGED <<store, locals, store0, fetched, firstRuns, replay,
                 processedMin, overlapped, caller, sourceVars>>

\* slip: the maps are persisted from inside the loop, so the records folded
\* before the throw reach the store
FoldThrowsPersisting(p) ==
  /\ pc[p] = "activity"
  /\ \E b \in Feed :
       /\ Fold(p, b).threw
       /\ activities' = [activities EXCEPT ![p] = Activities(b)]
       /\ store' = [store EXCEPT !.top50s_spots = Some(Fold(p, b).s50),
                                 !.top8s_spots = Some(Fold(p, b).s8)]
  /\ result' = [result EXCEPT ![p] = NullResult]
  /\ pc' = [pc EXCEPT ![p] = "done"]
  /\ UNCHANGED <<locals, store0, fetched, firstRuns, replay,
                 processedMin, overlapped, caller, sourceVars>>

\* lines 199-223, 251-254: a record makes the callback throw; the catch
\* block returns null
FoldThrows(p) ==
  /\ pc[p] = "activity"
  /\ \E b \in Feed :
       /\ Fold(p, b).threw
       /\ activities' = [activities EXCEPT ![p] = Activities(b)]
  /\ result' = [result EXCEPT ![p] = NullResult]
  /\ pc' = [pc EXCEPT ![p] = "done"]
  /\ UNCHANGED <<store, locals, store0, fetched, firstRuns, replay,
                 processedMin, overlapped, caller, sourceVars>>

\* lines 199-230, 242-250: fold, runCount > 0: persist and return
SubsequentRun(p) ==
  /\ pc[p] = "activity"
  /\ IsSubsequentRun(runCount[p])
  /\ \E b \in Feed :
       LET f == Fold(p, b)
           rc == NextRunCount(runCount[p])
           s1 == [store EXCEPT !.top50s_count = Some(f.c50),
                               !.top8s_count = Some(f.c8),
                               !.runCount = Some(rc),
                               !.top50s_spots = Some(f.s50),
                               !.top8s_spots = Some(f.s8)]
       IN  /\ ~f.threw
           /\ activities' = [activities EXCEPT ![p] = Activities(b)]
           /\ sessionTop50sScores' = [sessionTop50sScores EXCEPT ![p] = f.s50]
           /\ sessionTop50sCount' = [sessionTop50sCount EXCEPT ![p] = f.c50]
           /\ sessionTop8sScores' = [sessionTop8sScores EXCEPT ![p] = f.s8]
           /\ sessionTop8sCount' = [sessionTop8sCount EXCEPT ![p] = f.c8]
           /\ runCount' = [runCount EXCEPT ![p] = rc]
           /\ store' = s1
           /\ result' = [result EXCEPT ![p] = ReturnPair(f.c50, f.c8, s1)]
           /\ processedMin' = Processed(processedMin, b)
  /\ pc' = [pc EXCEPT ![p] = "done"]
  /\ UNCHANGED <<store0, fetched, firstRuns, replay, overlapped, caller, sourceVars>>

\* slip: top50s_spots is persisted before the baseline is awaited, apart
\* from top8s_spots
FirstRunSplitWrite(p) ==
  /\ pc[p] = "activity"
  /\ ~IsSubsequentRun(runCount[p])
  /\ \E b \in Feed :
       LET f == Fold(p, b)
           c50 == FirstRunCount(f.c50)
           c8 == FirstRunCount(f.c8)
       IN  /\ ~f.threw
           /\ activities' = [activities EXCEPT ![p] = Activities(b)]
           /\ sessionTop50sScores' = [sessionTop50sScores EXCEPT ![p] = f.s50]
           /\ sessionTop8sScores' = [sessionTop8sScores EXCEPT ![p] = f.s8]
           /\ sessionTop50sCount' = [sessionTop50sCount EXCEPT ![p] = c50]
           /\ sessionTop8sCount' = [sessionTop8sCount EXCEPT ![p] = c8]
           /\ store' = [store EXCEPT !.top50s_count = Some(c50),
                                     !.top8s_count = Some(c8),
                                     !.top50s_spots = Some(f.s50)]
  /\ firstRuns' = firstRuns + 1
  /\ pc' = [pc EXCEPT ![p] = "lb50"]
  /\ UNCHANGED <<runCount, result, store0, fetched, replay,
                 processedMin, overlapped, caller, sourceVars>>

\* lines 199-238: fold, runCount == 0: zero the counters, call
\* getTotalLBCount(50) and suspend
FirstRun(p) ==
  /\ pc[p] = "activity"
  /\ ~IsSubsequentRun(runCount[p])
  /\ \E b \in Feed :
       LET f == Fold(p, b)
           c50 == FirstRunCount(f.c50)
           c8 == FirstRunCount(f.c8)
       IN  /\ ~f.threw
           /\ activities' = [activities EXCEPT ![p] = Activities(b)]
           /\ sessionTop50sScores' = [sessionTop50sScores EXCEPT ![p] = f.s50]
           /\ sessionTop8sScores' = [sessionTop8sScores EXCEPT ![p] = f.s8]
           /\ sessionTop50sCount' = [sessionTop50sCount EXCEPT ![p] = c50]
           /\ sessionTop8sCount' = [sessionTop8sCount EXCEPT ![p] = c8]
           /\ store' = [store EXCEPT !.top50s_count = Some(c50),
                                     !.top8s_count = Some(c8)]
  /\ firstRuns' = firstRuns + 1
  /\ pc' = [pc EXCEPT ![p] = "lb50"]
  /\ UNCHANGED <<runCount, result, store0, fetched, replay,
                 processedMin, overlapped, caller, sourceVars>>

\* line 238-239: getTotalLBCount(50) resolved; store it, call
\* getTotalLBCount(8) and suspend
Baseline50(p) ==
  /\ pc[p] = "lb50"
  /\ \E v \in BaselineAnswers :
       /\ store' = [store EXCEPT !.Total_top50s_count = Some(v)]
       /\ fetched' = [fetched EXCEPT ![p] = <<v>>]
  /\ pc' = [pc EXCEPT ![p] = "lb8"]
  /\ UNCHANGED <<locals, activities, result, store0, firstRuns, replay,
                 processedMin, overlapped, caller, sourceVars>>

\* lines 239-250: getTotalLBCount(8) resolved; persist the rest and return
Baseline8(p) ==
  /\ pc[p] = "lb8"
  /\ \E v \in BaselineAnswers :
       LET rc == NextRunCount(runCount[p])
           s1 == [store EXCEPT !.Total_top8s_count = Some(v),
                               !.runCount = Some(rc),
                               !.top50s_spots = Some(sessionTop50sScores[p]),
                               !.top8s_spots = Some(sessionTop8sScores[p])]
       IN  /\ store' = s1
           /\ fetched' = [fetched EXCEPT ![p] = Append(fetched[p], v)]
           /\ runCount' = [runCount EXCEPT ![p] = rc]
           /\ result' = [result EXCEPT ![p] =
                 ReturnPair(sessionTop50sCount[p], sessionTop8sCount[p], s1)]
  /\ processedMin' = Processed(processedMin, activities[p].list)
  /\ pc' = [pc EXCEPT ![p] = "done"]
  /\ UNCHANGED <<overlapped, caller, sourceVars>>
  /\ UNCHANGED <<sessionTop50sScores, sessionTop50sCount, sessionTop8sScores,
                 sessionTop8sCount, activities, store0, firstRuns, replay>>

\* the promise resolves; the invocation's frame is gone
Finish(p) ==
  /\ pc[p] = "done"
  /\ pc' = [pc EXCEPT ![p] = "idle"]
  /\ sessionTop50sScores' = [sessionTop50sScores EXCEPT ![p] = EmptyMap]
  /\ sessionTop50sCount' = [sessionTop50sCount EXCEPT ![p] = 0]
  /\ sessionTop8sScores' = [sessionTop8sScores EXCEPT ![p] = EmptyMap]
  /\ sessionTop8sCount' = [sessionTop8sCount EXCEPT ![p] = 0]
  /\ runCount' = [runCount EXCEPT ![p] = 0]
  /\ activities' = [activities EXCEPT ![p] = NullActivities]
  /\ result' = [result EXCEPT ![p] = NullResult]
  /\ store0' = [store0 EXCEPT ![p] = EmptyStore]
  /\ fetched' = [fetched EXCEPT ![p] = NoFetch]
  /\ UNCHANGED <<store, firstRuns, processedMin, overlapped, caller, sourceVars>>

\* the caller polls again only after the previous invocation returned
NoneInFlight == \A q \in Procs : pc[q] = "idle"

\* a poll of the caller while no invocation is in flight
Poll(p) == NoneInFlight /\ Start(p)

Return(p) == Finish(p) /\ replay' = NoReplay

\* the caller feeds the next invocation the batch this one was given
ReturnAndReplay(p) ==
  /\ ~replay.armed
  /\ ~activities[p].isNull
  /\ Finish(p)
  /\ replay' = [armed |-> TRUE, batch |-> activities[p].list, result |-> result[p]]

Next ==
  \E p \in Procs :
    \/ Poll(p)
    \/ ActivityNull(p)
    \/ FoldThrows(p)
    \/ SubsequentRun(p)
    \/ FirstRun(p)
    \/ Baseline50(p)
    \/ Baseline8(p)
    \/ Return(p)

Spec == Init /\ [][Next]_vars

\* sequential invocations in which the caller may repeat a batch
NextReplay ==
  \E p \in Procs :
    \/ Poll(p)
    \/ ActivityNull(p)
    \/ FoldThrows(p)
    \/ SubsequentRun(p)
    \/ FirstRun(p)
    \/ Baseline50(p)
    \/ Baseline8(p)
    \/ Return(p)
    \/ ReturnAndReplay(p)

SpecReplay == Init /\ [][NextReplay]_vars

\* invocations that may start while others are suspended at an await
NextOverlap ==
  \E p \in Procs :
    \/ Start(p)
    \/ ActivityNull(p)
    \/ FoldThrows(p)
    \/ SubsequentRun(p)
    \/ FirstRun(p)
    \/ Baseline50(p)
    \/ Baseline8(p)
    \/ Return(p)

SpecOverlap == InitOverlap /\ [][NextOverlap]_vars

\* ------------------------------ getOsuUserActivity and getAccessToken
\* ms between two readings of Date.now()
TickMs == 500

\* response.data.expires_in of the token endpoint, in seconds
ExpiresIn == 1

\* line 23: `accessToken && Date.now() < accessToken.expires_on * 1000 * 60 * 10`
TokenStillValid(tok, t) ==
  tok # NoToken /\ t < tok[1].expires_on * 1000 * 60 * 10

\* lines 42-44: the token answered at time t, with its expiry instant
Issued(t) == << [expires_on |-> t + ExpiresIn * 1000] >>

\* lines 141-165, 18-41: entry of getOsuUserActivity with tok in the store:
\* no settings: null; cached token reused: api.get is sent; else the token
\* endpoint is asked
Enter(tok) ==
  IF ~settings
  THEN /\ apc' = "returned"
       /\ aresult' = "null"
       /\ lastToken' = lastToken
  ELSE IF TokenStillValid(tok, now)
  THEN /\ apc' = "get"
       /\ aresult' = "none"
       /\ lastToken' = [how |-> "cached", at |-> now,
                        expires_on |-> tok[1].expires_on]
  ELSE /\ apc' = "token"
       /\ aresult' = "none"
       /\ lastToken' = [how |-> "requested", at |-> now, expires_on |-> 0]

\* line 140: getOsuUserActivity is called
CallActivity ==
  /\ apc = "idle"
  /\ Enter(accessToken)
  /\ UNCHANGED <<settings, accessToken, now, trackerVars>>

\* lines 41-45, 145-165: the token endpoint answers; the token is stored
\* and api.get is sent
TokenGranted ==
  /\ apc = "token"
  /\ accessToken' = Issued(now)
  /\ apc' = "get"
  /\ UNCHANGED <<settings, now, aresult, lastToken, trackerVars>>

\* lines 46-49, 145: the token request fails; getOsuUserActivity returns null
TokenRefused ==
  /\ apc = "token"
  /\ apc' = "returned"
  /\ aresult' = "null"
  /\ UNCHANGED <<settings, accessToken, now, lastToken, trackerVars>>

\* lines 171-172: the API answers 200
Get200 ==
  /\ apc = "get"
  /\ apc' = "returned"
  /\ aresult' = "activities"
  /\ UNCHANGED <<settings, accessToken, now, lastToken, trackerVars>>

\* lines 175-177: the API answers 401; the token is cleared and
\* getAccessToken asks the token endpoint
Get401 ==
  /\ apc = "get"
  /\ accessToken' = NoToken
  /\ apc' = "retoken"
  /\ lastToken' = [how |-> "requested", at |-> now, expires_on |-> 0]
  /\ UNCHANGED <<settings, now, aresult, trackerVars>>

\* line 181: the API answers another error status (retries used up)
GetOtherStatus ==
  /\ apc = "get"
  /\ apc' = "returned"
  /\ aresult' = "null"
  /\ UNCHANGED <<settings, accessToken, now, lastToken, trackerVars>>

\* line 175: no response at all: err.response is undefined and reading
\* .status throws inside the catch block, the promise rejects
GetNoResponse ==
  /\ apc = "get"
  /\ apc' = "returned"
  /\ aresult' = "rejected"
  /\ UNCHANGED <<settings, accessToken, now, lastToken, trackerVars>>

\* lines 177-178: the token endpoint answers after a 401; the token is
\* stored and getOsuUserActivity calls itself
RetokenGranted ==
  /\ apc = "retoken"
  /\ accessToken' = Issued(now)
  /\ Enter(Issued(now))
  /\ UNCHANGED <<settings, now, trackerVars>>

\* lines 177-178: the token request after a 401 fails (its null is ignored)
\* and getOsuUserActivity calls itself
RetokenRefused ==
  /\ apc = "retoken"
  /\ Enter(accessToken)
  /\ UNCHANGED <<settings, accessToken, now, trackerVars>>

\* the caller received the result
Resolve ==
  /\ apc = "returned"
  /\ apc' = "idle"
  /\ aresult' = "none"
  /\ UNCHANGED <<settings, accessToken, now, lastToken, trackerVars>>

\* time passes
Tick ==
  /\ now < MaxTicks * TickMs
  /\ now' = now + TickMs
  /\ UNCHANGED <<settings, accessToken, apc, aresult, lastToken, trackerVars>>

\* an answer of the token endpoint or of the API to a pending request
Respond ==
  \/ TokenGranted
  \/ TokenRefused
  \/ Get200
  \/ Get401
  \/ GetOtherStatus
  \/ GetNoResponse
  \/ RetokenGranted
  \/ RetokenRefused

NextSource ==
  \/ CallActivity
  \/ TokenGranted
  \/ TokenRefused
  \/ Get200
  \/ Get401
  \/ GetOtherStatus
  \/ GetNoResponse
  \/ RetokenGranted
  \/ RetokenRefused
  \/ Resolve
  \/ Tick

InitSource ==
  /\ InitTracker
  /\ caller = "sequential"
  /\ settings \in BOOLEAN
  /\ InitSourceVars

\* every pending request is eventually answered (axios resolves or rejects)
SpecSource == InitSource /\ [][NextSource]_vars /\ WF_vars(Respond)

\* ------------------------------------------------- the persisted state
RunCounter == GetOr(store.runCount, 0)

Top50 == GetOr(store.top50s_spots, EmptyMap)

Top8 == GetOr(store.top8s_spots, EmptyMap)

Top50Count == GetOr(store.top50s_count, 0)

Top8Count == GetOr(store.top8s_count, 0)

Returned(p) == pc[p] = "done" /\ result[p] # NullResult

StartedAt(p) == GetOr(store0[p].runCount, 0)

\* ------------------------------------------------------------- the claims

\* C1: an invocation that returns null (the Activity Source answered null, or
\* a record made the fold throw) has written no key: the store is the one it
\* started from.
C1_NullWritesNothing ==
  \A p \in Procs :
    (pc[p] = "done" /\ result[p] = NullResult) => store = store0[p]

\* a fold that had already taken in a rank record threw on the next record
C1_Witness ==
  \E p \in Procs :
    /\ pc[p] = "done" /\ result[p] = NullResult
    /\ ~activities[p].isNull
    /\ Len(activities[p].list) = 2
    /\ activities[p].list[1].beatmap
    /\ activities[p].list[1].rank <= 8
    /\ ~activities[p].list[2].beatmap /\ activities[p].list[2].type = "rank"

\* C2: an invocation that is given the batch of the invocation before it
\* leaves both maps and both counters as that invocation left them and
\* returns the same value.
C2_Idempotent ==
  \A p \in Procs :
    (pc[p] = "done" /\ replay.armed) =>
       /\ activities[p] = Activities(replay.batch)
       /\ store.top50s_spots = store0[p].top50s_spots
       /\ store.top8s_spots = store0[p].top8s_spots
       /\ store.top50s_count = store0[p].top50s_count
       /\ store.top8s_count = store0[p].top8s_count
       /\ result[p] = replay.result

\* the replayed batch improved a known title into the top 8 the first time
C2_Witness ==
  \E p \in Procs :
    /\ pc[p] = "done" /\ replay.armed /\ result[p] # NullResult
    /\ StartedAt(p) > 0
    /\ Top8Count >= 1
    /\ \E i \in 1..Len(replay.batch) :
         /\ replay.batch[i].beatmap
         /\ replay.batch[i].title \in DOMAIN Top50
         /\ replay.batch[i].title \notin DOMAIN Top8
         /\ replay.batch[i].rank = Top50[replay.batch[i].title]
         /\ replay.batch[i].rank <= 8

\* C3: from one persisted state to the next no title leaves top50s_spots and
\* no stored rank increases.
C3_Monotone ==
  [][\A t \in DOMAIN Top50 : t \in DOMAIN Top50' /\ Top50'[t] <= Top50[t]]_vars

\* an invocation lowered the rank stored for a title
C3_Witness ==
  \E p \in Procs :
    /\ Returned(p)
    /\ \E t \in DOMAIN GetOr(store0[p].top50s_spots, EmptyMap) :
         Top50[t] < store0[p].top50s_spots[1][t]

\* C4: every title of top8s_spots is a title of top50s_spots whose stored rank
\* is at most 8.
C4_Top8Subset ==
  \A t \in DOMAIN Top8 : t \in DOMAIN Top50 /\ Top50[t] <= 8

\* a top-8 title was improved after it entered the top-8 map
C4_Witness ==
  \E t \in DOMAIN Top8 : t \in DOMAIN Top50 /\ Top50[t] < Top8[t]

\* Is list[i] the first rank record of its title with rank <= 50 ?
FirstEntry(list, i) ==
  /\ list[i].type = "rank" /\ list[i].beatmap /\ list[i].rank <= 50
  /\ \A j \in 1..(i - 1) :
       ~(list[j].type = "rank" /\ list[j].title = list[i].title
           /\ list[j].rank <= 50)

\* C5: an invocation that started with RunCounter = 0 and completed persists
\* both session counters as 0, has the batch's rank records in the persisted
\* maps, persists the two answers of getTotalLBCount as the baseline and
\* returns exactly those two answers.
C5_FirstRunZeroing ==
  \A p \in Procs :
    (Returned(p) /\ StartedAt(p) = 0) =>
       /\ store.top50s_count = Some(0)
       /\ store.top8s_count = Some(0)
       /\ \A i \in 1..Len(activities[p].list) :
            LET a == activities[p].list[i]
            IN  /\ (a.type = "rank" /\ a.rank <= 50) =>
                      (a.title \in DOMAIN Top50 /\ Top50[a.title] <= a.rank)
                /\ (FirstEntry(activities[p].list, i) /\ a.rank <= 8) =>
                      (a.title \in DOMAIN Top8 /\ Top8[a.title] = a.rank)
       /\ Len(fetched[p]) = 2
       /\ store.Total_top50s_count = Some(fetched[p][1])
       /\ store.Total_top8s_count = Some(fetched[p][2])
       /\ result[p] = << fetched[p][1], fetched[p][2] >>

\* a first run whose batch held two rank events, one of them in the top 8
C5_Witness ==
  \E p \in Procs :
    /\ Returned(p) /\ StartedAt(p) = 0
    /\ fetched[p] = << 2, 0 >>
    /\ Cardinality(DOMAIN Top50) = 2
    /\ Cardinality(DOMAIN Top8) = 1

\* C6: a value that is returned is the pair of sums of the persisted session
\* counter and the persisted baseline total.
C6_ReturnIsPersistedSum ==
  \A p \in Procs :
    Returned(p) =>
       /\ store.top50s_count # Undef /\ store.Total_top50s_count # Undef
       /\ store.top8s_count # Undef /\ store.Total_top8s_count # Undef
       /\ result[p] = << store.top50s_count[1] + store.Total_top50s_count[1],
                         store.top8s_count[1] + store.Total_top8s_count[1] >>

\* a later run returned a pair in which counter and baseline are both non-zero
C6_Witness ==
  \E p \in Procs :
    /\ Returned(p)
    /\ store.top50s_count = Some(2) /\ store.Total_top50s_count = Some(2)
    /\ store.top8s_count = Some(1) /\ store.Total_top8s_count = Some(0)
    /\ result[p] = << 4, 1 >>

\* C7: an invocation that started with RunCounter > 0 never calls
\* getTotalLBCount and leaves both baseline totals as they were.
C7_BaselineFrozen ==
  \A p \in Procs :
    (pc[p] # "idle" /\ StartedAt(p) > 0) =>
       /\ pc[p] \notin {"lb50", "lb8"}
       /\ fetched[p] = NoFetch
       /\ store.Total_top50s_count = store0[p].Total_top50s_count
       /\ store.Total_top8s_count = store0[p].Total_top8s_count

\* a later run completed with new titles while the baseline stayed
C7_Witness ==
  \E p \in Procs :
    /\ Returned(p) /\ StartedAt(p) > 0
    /\ Top50Count >= 1
    /\ store.Total_top50s_count = Some(2)
    /\ store.Total_top8s_count = Some(2)

\* C8: an invocation that does not return null persists a runCount one
\* greater than the runCount it started from.
C8_RunCounterIncrements ==
  \A p \in Procs : Returned(p) => RunCounter = StartedAt(p) + 1

\* C9: once RunCounter is positive it stays positive and the first-run
\* branch is not taken again.
C9_OneWay ==
  [][RunCounter > 0 => (RunCounter' > 0 /\ firstRuns' = firstRuns)]_vars

\* in a tracking session one invocation completed and a later one failed
C9_Witness ==
  /\ RunCounter > 0 /\ firstRuns = 1
  /\ Top50Count >= 1
  /\ \E p \in Procs : pc[p] = "done" /\ result[p] = NullResult

\* C10: top50Count is at most the number of titles of top50s_spots and
\* top8Count at most the number of titles whose stored rank is <= 8.
C10_CountsDistinctTitles ==
  /\ Top50Count <= Cardinality(DOMAIN Top50)
  /\ Top8Count <= Cardinality({t \in DOMAIN Top50 : Top50[t] <= 8})
\* the maps and counters an invocation loaded
Old50(p) == GetOr(store0[p].top50s_spots, EmptyMap)

Old8(p) == GetOr(store0[p].top8s_spots, EmptyMap)

Old50Count(p) == GetOr(store0[p].top50s_count, 0)

Old8Count(p) == GetOr(store0[p].top8s_count, 0)

\* C11: every title whose rank in top50s_spots is at most 8 is a key of
\* top8s_spots (an improvement into the top 8 is written into the top-8 map).
C11_QualifyingImprovementInTop8 ==
  \A t \in DOMAIN Top50 : Top50[t] <= 8 => t \in DOMAIN Top8

\* Is list[i] a well-formed rank record and the only rank record of list ?
OnlyRankRecord(list, i) ==
  /\ list[i].type = "rank" /\ list[i].beatmap
  /\ \A j \in (1..Len(list)) \ {i} : list[j].type # "rank"

\* C12: in an invocation that started with RunCounter > 0, a rank record for
\* a title unknown to top50s_spots inserts it and adds 1 to top50Count when
\* rank <= 50, also inserts it into top8s_spots and adds 1 to top8Count when
\* rank <= 8, and changes nothing when rank > 50; the persisted counters and
\* the returned pair grow by exactly that.
C12_NewTitleStep ==
  \A p \in Procs :
    (Returned(p) /\ StartedAt(p) > 0) =>
      \A i \in 1..Len(activities[p].list) :
        LET a == activities[p].list[i]
            in50 == IF a.rank <= 50 THEN 1 ELSE 0
            in8 == IF a.rank <= 8 THEN 1 ELSE 0
        IN  (OnlyRankRecord(activities[p].list, i) /\ a.title \notin DOMAIN Old50(p)) =>
              /\ DOMAIN Top50 = DOMAIN Old50(p) \cup (IF in50 = 1 THEN {a.title} ELSE {})
              /\ DOMAIN Top8 = DOMAIN Old8(p) \cup (IF in8 = 1 THEN {a.title} ELSE {})
              /\ in50 = 1 => Top50[a.title] = a.rank
              /\ in8 = 1 => Top8[a.title] = a.rank
              /\ \A t \in DOMAIN Old50(p) : Top50[t] = Old50(p)[t]
              /\ \A t \in DOMAIN Old8(p) : Top8[t] = Old8(p)[t]
              /\ store.top50s_count = Some(Old50Count(p) + in50)
              /\ store.top8s_count = Some(Old8Count(p) + in8)
              /\ result[p] =
                   << Old50Count(p) + in50 + GetOr(store0[p].Total_top50s_count, 0),
                      Old8Count(p) + in8 + GetOr(store0[p].Total_top8s_count, 0) >>

\* a later run took in "Song C"-like news: a second title, of rank 8, next to
\* a known one, with baseline 2 and 2: the counters become 1, 1, the pair 3, 3
C12_Witness ==
  \E p \in Procs :
    /\ Returned(p) /\ StartedAt(p) > 0
    /\ DOMAIN Old50(p) = {"Song A"}
    /\ Old50Count(p) = 0
    /\ \E i \in 1..Len(activities[p].list) :
         /\ OnlyRankRecord(activities[p].list, i)
         /\ activities[p].list[i] = RankRecord("Song B", 8)
    /\ store.top50s_count = Some(1) /\ store.top8s_count = Some(1)
    /\ result[p] = << 3, 3 >>

\* Does record a bring no improvement over the map m ?
NoImprovement(m, a) ==
  \/ a.type # "rank"
  \/ a.beatmap /\ a.title \in DOMAIN m /\ a.rank >= m[a.title]

\* C13: a batch made of records of another type and of rank records that do
\* not improve on the stored rank of a known title (ties included) leaves
\* both maps and both counters unchanged.
C13_NoImprovementNoChange ==
  \A p \in Procs :
    (Returned(p) /\ \A i \in 1..Len(activities[p].list) :
                       NoImprovement(Old50(p), activities[p].list[i])) =>
       /\ Top50 = Old50(p)
       /\ Top8 = Old8(p)
       /\ Top50Count = Old50Count(p)
       /\ Top8Count = Old8Count(p)

\* a batch with a record of another type and a tie at a rank <= 8 of a title
\* that is not in the top-8 map
C13_Witness ==
  \E p \in Procs :
    /\ Returned(p)
    /\ Len(activities[p].list) = 2
    /\ activities[p].list[1].type # "rank"
    /\ LET a == activities[p].list[2]
       IN  /\ a.type = "rank" /\ a.beatmap
           /\ a.title \in DOMAIN Old50(p)
           /\ a.rank = Old50(p)[a.title]
           /\ a.rank <= 8
           /\ a.title \notin DOMAIN Old8(p)

\* C15: the rank stored in top8s_spots for a title is the rank stored for it
\* in top50s_spots, the best one.
C15_Top8HoldsBestRank ==
  \A t \in DOMAIN Top8 : t \in DOMAIN Top50 /\ Top8[t] = Top50[t]

\* C14: a title is a key of top50s_spots exactly when a processed rank record
\* for it had rank <= 50, and the stored rank is the lowest rank of all
\* processed rank records for it, whatever their order and batches.
C14_Top50HoldsBestRank ==
  /\ DOMAIN Top50 = {t \in DOMAIN processedMin : processedMin[t] <= 50}
  /\ \A t \in DOMAIN Top50 : Top50[t] = processedMin[t]

\* one title was only seen above rank 50, the other was improved to rank 5
C14_Witness ==
  /\ DOMAIN processedMin = {"Song A", "Song B"}
  /\ processedMin["Song B"] = 50
  /\ Top50 = [t \in {"Song B"} |-> 50]
  /\ processedMin["Song A"] = 51

\* C16: the first-run branch is taken a second time only if an invocation
\* started while another one was in flight.
C16_DoubleFirstRunNeedsOverlap == firstRuns > 1 => overlapped

\* both invocations loaded RunCounter = 0, both zeroed the counters and both
\* fetched and wrote the two baseline totals
C16_Witness ==
  /\ firstRuns = 2
  /\ \A p \in Procs :
       /\ Returned(p) /\ StartedAt(p) = 0
       /\ Len(fetched[p]) = 2
       /\ runCount[p] = 1

\* C17: an entry disappears from top50s_spots, a stored rank rises or a
\* session counter falls only if an invocation started while another one was
\* in flight.
C17_LostUpdateNeedsOverlap ==
  [][(\/ \E t \in DOMAIN Top50 : t \notin DOMAIN Top50' \/ Top50'[t] > Top50[t]
      \/ Top50Count' < Top50Count
      \/ Top8Count' < Top8Count) => overlapped]_vars

\* the invocation that persisted last wrote its stale snapshot: "Song A",
\* persisted with rank 8 by the other one, is gone from top50s_spots
C17_Witness ==
  /\ overlapped
  /\ "Song A" \in DOMAIN processedMin /\ processedMin["Song A"] = 8
  /\ DOMAIN Top50 = {"Song B"}
  /\ \A p \in Procs : pc[p] \in {"idle", "done"}

\* C18: with overlapping invocations too, every title of the persisted
\* top8s_spots is a title of the persisted top50s_spots with rank <= 8.
C18_Top8SubsetUnderOverlap ==
  \A t \in Titles :
    t \in DOMAIN Top8 => (t \in DOMAIN Top50 /\ Top50[t] <= 8)

\* after a lost update the top-8 map is not empty
C18_Witness ==
  /\ overlapped
  /\ DOMAIN Top8 # {}
  /\ \E t \in DOMAIN processedMin :
       processedMin[t] <= 50 /\ (t \notin DOMAIN Top50 \/ Top50[t] > processedMin[t])

\* C19: every call of getOsuUserActivity that is suspended at a request
\* eventually returns.
C19_ActivityCallTerminates ==
  (apc \in {"token", "get", "retoken"}) ~> (apc = "returned")

\* C20: getAccessToken answers with the stored token only while the current
\* time is earlier than the token's expires_on.
C20_ReuseOnlyBeforeExpiry ==
  lastToken.how = "cached" => lastToken.at < lastToken.expires_on

====
